---- MODULE Spec2Model ----
(***************************************************************************)
(* Model of the fraud decision service in src/fraud_api.py: the per-user   *)
(* velocity window and last-country record kept in Redis, the feature      *)
(* builder, the rule engine of predict and the configuration merge.        *)
(*                                                                         *)
(* Conventions.  Time is the integer second returned by int(time.time());  *)
(* Redis uses the same clock.  Fractional quantities (risk and anomaly     *)
(* scores, the float thresholds of the config) are held in hundredths:     *)
(* 0.9 is 90, 0.03 is 3, the multiplier 3 is 300.  amount_vs_avg is held   *)
(* as an exact fraction [num, den].  A Redis GET result is <<>> for nil    *)
(* and <<v>> for the value v.                                              *)
(***************************************************************************)
EXTENDS Integers, Sequences, FiniteSets, TLC

VARIABLES
    clock,               \* time.time() / Redis server time, in seconds
    redis_txn,           \* user -> sorted set "txn:<user>" with its TTL
    redis_amt,           \* user -> sorted set "amt:<user>" with its TTL
    redis_last_country,  \* user -> string key "last_country:<user>" with its TTL
    redis_config,        \* Redis key "fraud_config"
    CURRENT_CONFIG,      \* the module-level config dict
    models_loaded,       \* xgb_fraud / iso_model / scaler are not None
    admin_logs,          \* rows of table admin_logs
    transactions,        \* rows of table transactions
    running,             \* the server process has started and serves requests
    hist,                \* ghost: user -> the calls of predict made, with their outcome
    last,                \* ghost: inputs, intermediate values and result of the last predict
    config_reply,        \* ghost: the last response of a configuration endpoint
    frames,              \* request in progress -> its position and local variables
    workload             \* ghost: what the callers still send (keeps the model finite)

vars == <<clock, redis_txn, redis_amt, redis_last_country, redis_config,
          CURRENT_CONFIG, models_loaded, admin_logs, transactions, running,
          hist, last, config_reply, frames, workload>>

----------------------------------------------------------------------------
(* Bounds of the model *)

MaxCalls == 3
MaxTicks == 2
MaxMerges == 1
GeoMaxCalls == 2
RulesMaxCalls == 2
RulesMaxTicks == 1
RulesMaxMerges == 1
AdminMaxCalls == 1
AdminMaxTicks == 1
AdminMaxMerges == 2
FaultsMaxCalls == 2
FaultsMaxTicks == 1
FaultsMaxMerges == 1
ConcMaxCalls == 2
ConcMaxTicks == 1
ConcMaxMerges == 1
MergersMaxCalls == 1
MergersMaxTicks == 1
MergersMaxMerges == 2
OutageMaxCalls == 1
OutageMaxTicks == 1
OutageMaxMerges == 1
WindowMaxCalls == 2
WindowMaxTicks == 1
WindowMaxMerges == 1
StartTime == 1000

Users == {"U1", "U2"}
Amounts == {100, 4500}
Countries == {"", "IN", "US"}
Hours == {4, 5}
RiskScores == {0, 90, 91}
AnomalyScores == {3, 4}
Deltas == {1, 600}
FaultAmounts == {-100, 100, 4500}

----------------------------------------------------------------------------
(* Program constants *)

WINDOW_SECONDS == 600

user_avg_amount == 1500

CheckNames == {"velocity", "geo_location", "amount_spike", "midnight",
               "ml_risk_score", "anomaly_detection"}

DEFAULT_CONFIG ==
    [ velocity_threshold      |-> 3,
      velocity_window         |-> 600,
      high_risk_threshold     |-> 90,
      flag_risk_threshold     |-> 80,
      amount_spike_multiplier |-> 300,
      anomaly_score_threshold |-> 3,
      baseline_amount         |-> 1500,
      midnight_hours          |-> <<0, 1, 2, 3, 4>>,
      enabled_checks          |-> [k \in CheckNames |-> TRUE] ]

----------------------------------------------------------------------------
(* Redis keys with a time to live.  A key is [v |-> value, exp |-> time];  *)
(* exp = NoTTL means the key never expires.  Redis treats a key as gone    *)
(* once the current time is greater than its expiry time.                  *)

NoTTL == 0 - 1

NoZSet == [v |-> {}, exp |-> NoTTL]

NoString == [v |-> <<>>, exp |-> NoTTL]

Expired(key, now) == key.exp # NoTTL /\ now > key.exp

LiveZSet(key, now) == IF Expired(key, now) THEN NoZSet ELSE key

LiveString(key, now) == IF Expired(key, now) THEN NoString ELSE key

\* ZADD key score member: a member is in the set once; adding it again
\* only replaces its score.  The TTL of the key is kept.
zadd(key, member, score) ==
    [key EXCEPT !.v = {e \in key.v : e.member # member}
                        \cup {[member |-> member, score |-> score]}]

\* ZREMRANGEBYSCORE key min max: both ends inclusive.  A sorted set left
\* empty is deleted.
zremrangebyscore(key, min, max) ==
    LET rest == {e \in key.v : ~(min <= e.score /\ e.score <= max)}
    IN  IF rest = {} THEN NoZSet ELSE [key EXCEPT !.v = rest]

\* EXPIRE key seconds: no effect on a key that does not exist.
expire(key, seconds, now) ==
    IF key.v = {} THEN key ELSE [key EXCEPT !.exp = now + seconds]

zcard(key) == Cardinality(key.v)

\* ZRANGE key 0 -1: the members
zrange(key) == {e.member : e \in key.v}

\* SETEX key seconds value
setex(seconds, value, now) == [v |-> <<value>>, exp |-> now + seconds]

RECURSIVE SumSet(_)
SumSet(S) ==
    IF S = {} THEN 0
    ELSE LET x == CHOOSE y \in S : TRUE IN x + SumSet(S \ {x})

Range(s) == {s[i] : i \in 1..Len(s)}

----------------------------------------------------------------------------
(* Velocity window and last country (src/fraud_api.py, "LOGIC") *)

\* update_velocity that forgets to discard the old entries of the amt set.
update_velocity_amt_not_purged(txn_key, amt_key, now, amount) ==
    LET txn1   == zadd(LiveZSet(txn_key, now), now, now)
        amt1   == zadd(LiveZSet(amt_key, now), amount, now)
        cutoff == now - WINDOW_SECONDS
        txn2   == zremrangebyscore(txn1, 0, cutoff)
        txn3   == expire(txn2, WINDOW_SECONDS, now)
        amt3   == expire(amt1, WINDOW_SECONDS, now)
    IN  [ txn       |-> txn3,
          amt       |-> amt3,
          txn_count |-> zcard(txn3),
          amt_sum   |-> SumSet(zrange(amt3)) ]

\* update_velocity, on the two sorted sets of one user.  The member of the
\* txn set is the second `now`, the member of the amt set is the amount.
update_velocity(txn_key, amt_key, now, amount) ==
    LET txn1   == zadd(LiveZSet(txn_key, now), now, now)
        amt1   == zadd(LiveZSet(amt_key, now), amount, now)
        cutoff == now - WINDOW_SECONDS
        txn2   == zremrangebyscore(txn1, 0, cutoff)
        amt2   == zremrangebyscore(amt1, 0, cutoff)
        txn3   == expire(txn2, WINDOW_SECONDS, now)
        amt3   == expire(amt2, WINDOW_SECONDS, now)
    IN  [ txn       |-> txn3,
          amt       |-> amt3,
          txn_count |-> zcard(txn3),
          amt_sum   |-> SumSet(zrange(amt3)) ]

\* get_and_update_country without the fall-back to the call's own country.
get_and_update_country_no_fallback(key, country, now) ==
    LET got == LiveString(key, now).v
    IN  [ got          |-> got,
          last_country |-> IF got = <<>> THEN "" ELSE got[1],
          key          |-> setex(WINDOW_SECONDS, country, now) ]

\* get_and_update_country: `r.get(key) or country` takes `country` when
\* the key is missing and also when the stored string is empty.
get_and_update_country(key, country, now) ==
    LET got == LiveString(key, now).v
    IN  [ got          |-> got,
          last_country |-> IF got = <<>> \/ got[1] = "" THEN country ELSE got[1],
          key          |-> setex(WINDOW_SECONDS, country, now) ]

----------------------------------------------------------------------------
(* Feature builder *)

Max(a, b) == IF a >= b THEN a ELSE b

\* build_features; amount_vs_avg = min(amount / max(user_avg_amount, 1), 20)
\* is the fraction num / den.
build_features(amount, country, txn_count, amt_sum, last_country, hour) ==
    LET den == Max(user_avg_amount, 1)
    IN  [ amount          |-> amount,
          amount_vs_avg   |-> [num |-> IF amount <= 20 * den THEN amount ELSE 20 * den,
                               den |-> den],
          time_diff_sec   |-> 0,
          txn_count_10min |-> txn_count,
          amt_sum_10min   |-> amt_sum,
          is_midnight_txn |-> IF hour <= 4 THEN 1 ELSE 0,
          is_new_country  |-> IF country # last_country THEN 1 ELSE 0 ]

\* X["amount_vs_avg"] >= m, for a multiplier m in hundredths
RatioAtLeast(ratio, m) == ratio.num * 100 >= m * ratio.den

----------------------------------------------------------------------------
(* Rule engine of predict *)

VelocityReason(cfg) ==
    [kind |-> "High transaction velocity",
     p |-> cfg.velocity_threshold, q |-> cfg.velocity_window]
RiskSpikeReason == [kind |-> "High fraud risk with sudden amount spike", p |-> 0, q |-> 0]
NewCountryReason == [kind |-> "Transaction from a new country", p |-> 0, q |-> 0]
AmountSpikeReason(amount) == [kind |-> "Sudden large amount", p |-> amount, q |-> 0]
MidnightReason == [kind |-> "Transaction during unusual hours (midnight)", p |-> 0, q |-> 0]
AnomalyReason == [kind |-> "Unusual behavior detected by anomaly model", p |-> 0, q |-> 0]
RiskPatternReason == [kind |-> "Matches known fraud patterns", p |-> 0, q |-> 0]
NormalReason == [kind |-> "Normal transaction behavior", p |-> 0, q |-> 0]

Decision(action, reasons) == [returned |-> TRUE, action |-> action, reasons |-> reasons]

\* cfg["enabled_checks"][k] on a map without k raises KeyError: predict
\* returns no decision.
KeyError == [returned |-> FALSE, action |-> "KeyError", reasons |-> <<>>]

\* The FLAG tier with a midnight rule that does not look at enabled_checks.
flag_rules_midnight_always(cfg, amount, X, risk_score, anomaly_score) ==
    LET ec == cfg.enabled_checks
        r1 == IF ec["geo_location"] /\ X.is_new_country = 1
              THEN <<NewCountryReason>> ELSE <<>>
        r2 == IF ec["amount_spike"] /\ RatioAtLeast(X.amount_vs_avg, cfg.amount_spike_multiplier)
              THEN <<AmountSpikeReason(amount)>> ELSE <<>>
        r3 == IF X.is_midnight_txn = 1
              THEN <<MidnightReason>> ELSE <<>>
        r4 == IF ec["anomaly_detection"] /\ anomaly_score > cfg.anomaly_score_threshold
              THEN <<AnomalyReason>> ELSE <<>>
        r5 == IF ec["ml_risk_score"] /\ risk_score > cfg.flag_risk_threshold
              THEN <<RiskPatternReason>> ELSE <<>>
        reasons == r1 \o r2 \o r3 \o r4 \o r5
    IN  IF {"geo_location", "amount_spike", "midnight", "anomaly_detection",
            "ml_risk_score"} \subseteq DOMAIN ec
        THEN IF reasons # <<>>
             THEN Decision("FLAG", reasons)
             ELSE Decision("ALLOW", <<NormalReason>>)
        ELSE KeyError

\* The FLAG tier without the canned reason of ALLOW.
flag_rules_no_canned_reason(cfg, amount, X, risk_score, anomaly_score) ==
    LET ec == cfg.enabled_checks
        r1 == IF ec["geo_location"] /\ X.is_new_country = 1
              THEN <<NewCountryReason>> ELSE <<>>
        r2 == IF ec["amount_spike"] /\ RatioAtLeast(X.amount_vs_avg, cfg.amount_spike_multiplier)
              THEN <<AmountSpikeReason(amount)>> ELSE <<>>
        r3 == IF ec["midnight"] /\ X.is_midnight_txn = 1
              THEN <<MidnightReason>> ELSE <<>>
        r4 == IF ec["anomaly_detection"] /\ anomaly_score > cfg.anomaly_score_threshold
              THEN <<AnomalyReason>> ELSE <<>>
        r5 == IF ec["ml_risk_score"] /\ risk_score > cfg.flag_risk_threshold
              THEN <<RiskPatternReason>> ELSE <<>>
        reasons == r1 \o r2 \o r3 \o r4 \o r5
    IN  IF {"geo_location", "amount_spike", "midnight", "anomaly_detection",
            "ml_risk_score"} \subseteq DOMAIN ec
        THEN IF reasons # <<>>
             THEN Decision("FLAG", reasons)
             ELSE Decision("ALLOW", <<>>)
        ELSE KeyError

\* The FLAG tier as an if / elif chain: it stops at the first check that
\* trips.
flag_rules_first_only(cfg, amount, X, risk_score, anomaly_score) ==
    LET ec == cfg.enabled_checks
        r1 == IF ec["geo_location"] /\ X.is_new_country = 1
              THEN <<NewCountryReason>> ELSE <<>>
        r2 == IF ec["amount_spike"] /\ RatioAtLeast(X.amount_vs_avg, cfg.amount_spike_multiplier)
              THEN <<AmountSpikeReason(amount)>> ELSE <<>>
        r3 == IF ec["midnight"] /\ X.is_midnight_txn = 1
              THEN <<MidnightReason>> ELSE <<>>
        r4 == IF ec["anomaly_detection"] /\ anomaly_score > cfg.anomaly_score_threshold
              THEN <<AnomalyReason>> ELSE <<>>
        r5 == IF ec["ml_risk_score"] /\ risk_score > cfg.flag_risk_threshold
              THEN <<RiskPatternReason>> ELSE <<>>
        reasons == IF r1 # <<>> THEN r1 ELSE IF r2 # <<>> THEN r2
                   ELSE IF r3 # <<>> THEN r3 ELSE IF r4 # <<>> THEN r4 ELSE r5
    IN  IF {"geo_location", "amount_spike", "midnight", "anomaly_detection",
            "ml_risk_score"} \subseteq DOMAIN ec
        THEN IF reasons # <<>>
             THEN Decision("FLAG", reasons)
             ELSE Decision("ALLOW", <<NormalReason>>)
        ELSE KeyError

\* The FLAG tier (the final else of the rule chain).
flag_rules(cfg, amount, X, risk_score, anomaly_score) ==
    LET ec == cfg.enabled_checks
        r1 == IF ec["geo_location"] /\ X.is_new_country = 1
              THEN <<NewCountryReason>> ELSE <<>>
        r2 == IF ec["amount_spike"] /\ RatioAtLeast(X.amount_vs_avg, cfg.amount_spike_multiplier)
              THEN <<AmountSpikeReason(amount)>> ELSE <<>>
        r3 == IF ec["midnight"] /\ X.is_midnight_txn = 1
              THEN <<MidnightReason>> ELSE <<>>
        r4 == IF ec["anomaly_detection"] /\ anomaly_score > cfg.anomaly_score_threshold
              THEN <<AnomalyReason>> ELSE <<>>
        r5 == IF ec["ml_risk_score"] /\ risk_score > cfg.flag_risk_threshold
              THEN <<RiskPatternReason>> ELSE <<>>
        reasons == r1 \o r2 \o r3 \o r4 \o r5
    IN  IF {"geo_location", "amount_spike", "midnight", "anomaly_detection",
            "ml_risk_score"} \subseteq DOMAIN ec
        THEN IF reasons # <<>>
             THEN Decision("FLAG", reasons)
             ELSE Decision("ALLOW", <<NormalReason>>)
        ELSE KeyError

\* The rule chain with the risk and spike rule tried before the velocity rule.
predict_rules_risk_first(cfg, amount, X, risk_score, anomaly_score) ==
    LET ec == cfg.enabled_checks
    IN  IF "ml_risk_score" \notin DOMAIN ec THEN KeyError
        ELSE IF ec["ml_risk_score"] /\ "amount_spike" \notin DOMAIN ec THEN KeyError
        ELSE IF /\ ec["ml_risk_score"]
                /\ ec["amount_spike"]
                /\ risk_score > cfg.high_risk_threshold
                /\ RatioAtLeast(X.amount_vs_avg, cfg.amount_spike_multiplier)
        THEN Decision("BLOCK", <<RiskSpikeReason>>)
        ELSE IF "velocity" \notin DOMAIN ec THEN KeyError
        ELSE IF ec["velocity"] /\ X.txn_count_10min >= cfg.velocity_threshold
        THEN Decision("BLOCK", <<VelocityReason(cfg)>>)
        ELSE flag_rules(cfg, amount, X, risk_score, anomaly_score)

\* The rule chain with risk_score >= high_risk_threshold in the risk and
\* spike rule.
predict_rules_risk_inclusive(cfg, amount, X, risk_score, anomaly_score) ==
    LET ec == cfg.enabled_checks
    IN  IF "velocity" \notin DOMAIN ec THEN KeyError
        ELSE IF ec["velocity"] /\ X.txn_count_10min >= cfg.velocity_threshold
        THEN Decision("BLOCK", <<VelocityReason(cfg)>>)
        ELSE IF "ml_risk_score" \notin DOMAIN ec THEN KeyError
        ELSE IF ec["ml_risk_score"] /\ "amount_spike" \notin DOMAIN ec THEN KeyError
        ELSE IF /\ ec["ml_risk_score"]
                /\ ec["amount_spike"]
                /\ risk_score >= cfg.high_risk_threshold
                /\ RatioAtLeast(X.amount_vs_avg, cfg.amount_spike_multiplier)
        THEN Decision("BLOCK", <<RiskSpikeReason>>)
        ELSE flag_rules(cfg, amount, X, risk_score, anomaly_score)

\* The if / elif / else chain of predict, with Python's left-to-right
\* short-circuit reading of the enabled_checks keys.
predict_rules(cfg, amount, X, risk_score, anomaly_score) ==
    LET ec == cfg.enabled_checks
    IN  IF "velocity" \notin DOMAIN ec THEN KeyError
        ELSE IF ec["velocity"] /\ X.txn_count_10min >= cfg.velocity_threshold
        THEN Decision("BLOCK", <<VelocityReason(cfg)>>)
        ELSE IF "ml_risk_score" \notin DOMAIN ec THEN KeyError
        ELSE IF ec["ml_risk_score"] /\ "amount_spike" \notin DOMAIN ec THEN KeyError
        ELSE IF /\ ec["ml_risk_score"]
                /\ ec["amount_spike"]
                /\ risk_score > cfg.high_risk_threshold
                /\ RatioAtLeast(X.amount_vs_avg, cfg.amount_spike_multiplier)
        THEN Decision("BLOCK", <<RiskSpikeReason>>)
        ELSE flag_rules(cfg, amount, X, risk_score, anomaly_score)

\* Lines 335-336 of predict: the scores are 0 when the models were not
\* loaded; a loaded model gives a score or raises, and no try encloses the
\* two calls.  An outcome is the pair <<risk_score, anomaly_score>>, or <<>>
\* for an exception, after which the scores have not been assigned.
scorer(loaded, raises) ==
    IF ~loaded
    THEN { <<0, 0>> }
    ELSE { <<rs, an>> : rs \in RiskScores, an \in AnomalyScores }
         \cup { <<>> : x \in raises \ {FALSE} }

\* An exception of the scorer leaves predict: no decision is returned.
ScorerError == [returned |-> FALSE, action |-> "Exception", reasons |-> <<>>]

\* The row of table transactions for a decision: the columns that the
\* rules produce.
transaction_row(data, result) ==
    [ user_id       |-> data.user_id,
      amount        |-> data.amount,
      country       |-> data.country,
      action        |-> result.action,
      risk_score    |-> data.risk_score,
      anomaly_score |-> data.anomaly_score,
      reason        |-> result.reasons ]

\* An exception of the database write leaves predict.
SinkError == [returned |-> FALSE, action |-> "Exception", reasons |-> <<>>]

\* log_transaction without its try / except: a failed write raises.
log_transaction_no_except(rows, data, result, written) ==
    [ rows   |-> IF written THEN Append(rows, transaction_row(data, result)) ELSE rows,
      raised |-> ~written ]

\* log_transaction(data, result): connect, INSERT and commit are inside
\* try / except Exception, which prints the error and returns.  written =
\* FALSE is a write that raised; the function itself never raises.
log_transaction(rows, data, result, written) ==
    [ rows   |-> IF written THEN Append(rows, transaction_row(data, result)) ELSE rows,
      raised |-> FALSE ]

----------------------------------------------------------------------------
(* Configuration *)

\* json.dumps of a config dict.  The JSON text is held as its parse tree:
\* one member per key, a number literal, an array of number literals for
\* midnight_hours, and for enabled_checks an object whose members are the
\* literals true and false.
json_dumps(cfg) ==
    [f \in DOMAIN cfg |->
        IF f = "enabled_checks"
        THEN [t |-> "object",
              members |-> [k \in DOMAIN cfg[f] |->
                              IF cfg[f][k] THEN "true" ELSE "false"]]
        ELSE IF f = "midnight_hours"
        THEN [t |-> "array",
              items |-> [i \in DOMAIN cfg[f] |-> [t |-> "number", n |-> cfg[f][i]]]]
        ELSE [t |-> "number", n |-> cfg[f]]]

\* json.loads that gives every check of the default config again.
json_loads_default_checks(doc) ==
    [f \in DOMAIN doc |->
        IF doc[f].t = "object"
        THEN DEFAULT_CONFIG.enabled_checks
        ELSE IF doc[f].t = "array"
        THEN [i \in DOMAIN doc[f].items |-> doc[f].items[i].n]
        ELSE doc[f].n]

\* json.loads of such a text
json_loads(doc) ==
    [f \in DOMAIN doc |->
        IF doc[f].t = "object"
        THEN [k \in DOMAIN doc[f].members |-> doc[f].members[k] = "true"]
        ELSE IF doc[f].t = "array"
        THEN [i \in DOMAIN doc[f].items |-> doc[f].items[i].n]
        ELSE doc[f].n]

\* load_config: config_str is the result of r.get("fraud_config").  With no
\* key the default is stored and becomes CURRENT_CONFIG.
load_config(config_str) ==
    IF config_str # <<>>
    THEN [stored |-> config_str, config |-> json_loads(config_str[1])]
    ELSE [stored |-> <<json_dumps(DEFAULT_CONFIG)>>, config |-> DEFAULT_CONFIG]

\* Bodies of POST /api/admin/config: config_update.dict(exclude_unset=True)
\* restricted to the fields whose value is not None (the loop skips None).
\* A body is a function from the fields it sets to their values.
ChecksOff(S) == [k \in S |-> FALSE]

ThresholdUpdates ==
    { [velocity_threshold |-> 5, high_risk_threshold |-> 85] }

GeoUpdates ==
    { [enabled_checks |-> ChecksOff(CheckNames \ {"geo_location"})],
      [enabled_checks |-> ChecksOff({"geo_location"})] }

ConfigUpdates ==
    { [velocity_threshold |-> 1],
      [amount_spike_multiplier |-> 200],
      [enabled_checks |-> ChecksOff({})],
      [enabled_checks |-> ChecksOff(CheckNames)] }
    \cup { [enabled_checks |-> ChecksOff({k})] : k \in CheckNames }

\* The bodies sent by src/test_persistence.py: TEST 2 (thresholds) and
\* TEST 4 (the six checks)
PersistenceUpdates ==
    { [velocity_threshold |-> 8, high_risk_threshold |-> 92,
       flag_risk_threshold |-> 72, amount_spike_multiplier |-> 380,
       baseline_amount |-> 2000, anomaly_score_threshold |-> 78],
      [enabled_checks |-> [k \in CheckNames |->
                              k \in {"velocity", "amount_spike", "ml_risk_score"}]] }

\* ConfigUpdate declares types and no ranges: thresholds below 0 are
\* accepted.
RangeUpdates ==
    { [anomaly_score_threshold |-> -1],
      [flag_risk_threshold |-> -10],
      [high_risk_threshold |-> -10] }

\* A body with a valid field, a multiplier below 1 and a check name that
\* predict does not know: Dict[str, bool] takes any name.
InvalidUpdates ==
    { [velocity_threshold |-> 5, amount_spike_multiplier |-> 50,
       enabled_checks |-> [unknown_check |-> TRUE]] }

\* Bodies for the configuration endpoints: top-level fields only, an
\* enabled_checks map with no, one, two or all six names, both kinds of
\* field together, and values out of range.
AdminUpdates ==
    ThresholdUpdates \cup PersistenceUpdates \cup RangeUpdates \cup InvalidUpdates
    \cup { [enabled_checks |-> ChecksOff(S)] :
             S \in {{}, {"geo_location"}, {"velocity", "midnight"}, CheckNames} }
    \cup { [velocity_threshold |-> 1, enabled_checks |-> ChecksOff({"amount_spike"})] }

FaultUpdates == RangeUpdates \cup ThresholdUpdates \cup { [velocity_threshold |-> 1] }

\* Bodies that set velocity_window, alone and with the threshold
WindowUpdates ==
    { [velocity_window |-> 60],
      [velocity_threshold |-> 2, velocity_window |-> 60] }

\* Bodies of merges made during an outage
OutageUpdates == ThresholdUpdates \cup { [velocity_threshold |-> 1] }

\* Bodies of merges made at the same time: they share one field.
ConcUpdates ==
    ThresholdUpdates
    \cup { [high_risk_threshold |-> 92, enabled_checks |-> ChecksOff({"geo_location"})] }

\* The Authorization header of a request.  A string is held as the
\* sequence of its pieces, in which every occurrence of "Bearer " is a
\* piece of its own; <<>> is a missing or empty header.
ADMIN_TOKEN == "your-secure-admin-token"

AdminHeader == <<"Bearer ", ADMIN_TOKEN>>

Headers ==
    { <<>>,
      <<"Basic ", ADMIN_TOKEN>>,
      <<"Bearer ", "wrong-token">>,
      <<"Bearer ", "Bearer ", ADMIN_TOKEN>>,
      AdminHeader }

\* str.startswith
startswith(str, prefix) == Len(str) >= 1 /\ str[1] = prefix

\* str.replace(old, ""): every occurrence of old is removed, not only the
\* leading one.
str_replace(str, old) == SelectSeq(str, LAMBDA piece : piece # old)

\* update_config, lines 526-534: the HTTP status raised for the header, or
\* 0 when the request goes on to the merge.
check_authorization(authorization) ==
    IF authorization = <<>> \/ ~startswith(authorization, "Bearer ") THEN 401
    ELSE IF str_replace(authorization, "Bearer ") # <<ADMIN_TOKEN>> THEN 403
    ELSE 0

\* dict.update
dict_update(d, e) ==
    [k \in DOMAIN d \cup DOMAIN e |-> IF k \in DOMAIN e THEN e[k] ELSE d[k]]

\* A merge that starts from the default config instead of the current one.
merge_config_from_default(cfg, body) ==
    [f \in DOMAIN cfg |->
        IF f \notin DOMAIN body THEN DEFAULT_CONFIG[f]
        ELSE IF f = "enabled_checks" /\ DOMAIN body[f] # {}
             THEN dict_update(cfg[f], body[f])
             ELSE body[f]]

\* The loop of update_config over the fields of the body:
\*   if field == "enabled_checks" and value: CURRENT_CONFIG[field].update(value)
\*   elif value is not None:                 CURRENT_CONFIG[field] = value
\* An empty enabled_checks map is falsy and takes the second branch.
merge_config(cfg, body) ==
    [f \in DOMAIN cfg |->
        IF f \notin DOMAIN body THEN cfg[f]
        ELSE IF f = "enabled_checks" /\ DOMAIN body[f] # {}
             THEN dict_update(cfg[f], body[f])
             ELSE body[f]]

\* old_config = CURRENT_CONFIG.copy() is a shallow copy: its enabled_checks
\* is the dict that the loop updates in place, and a different dict only
\* when the loop assigned a new one.
old_config_after(cfg, body) ==
    IF "enabled_checks" \in DOMAIN body /\ DOMAIN body["enabled_checks"] # {}
    THEN [cfg EXCEPT !.enabled_checks = dict_update(cfg.enabled_checks, body["enabled_checks"])]
    ELSE cfg

----------------------------------------------------------------------------
(* State machine *)

NoCall == [op |-> "none"]

\* Requests served at the same time: /predict is a plain def and runs in a
\* worker thread of the server; /api/admin/config is an async def and runs
\* on the event loop.
PredictThreads == {"t1", "t2"}

Mergers == {"m1", "m2"}

Requests == PredictThreads \cup Mergers

Idle == [pc |-> "idle"]

\* The server gives a new request to a free worker; which one is immaterial.
free_slot(S, fr) == CHOOSE p \in {x \in S : fr[x].pc = "idle"} : TRUE

\* The state after start-up.  w is the workload: how many calls, clock
\* steps and merges follow, and which values the callers send.
InitState(w, loaded) ==
    /\ clock = StartTime
    /\ redis_txn = [u \in Users |-> NoZSet]
    /\ redis_amt = [u \in Users |-> NoZSet]
    /\ redis_last_country = [u \in Users |-> NoString]
    /\ redis_config = load_config(<<>>).stored
    /\ CURRENT_CONFIG = load_config(<<>>).config
    /\ models_loaded \in loaded
    /\ admin_logs = <<>>
    /\ transactions = <<>>
    /\ running = TRUE
    /\ hist = [u \in Users |-> <<>>]
    /\ last = NoCall
    /\ config_reply = NoCall
    /\ frames = [p \in Requests |-> Idle]
    /\ workload = w

\* Velocity window: two users, two amounts, one country, no scorer.
Init ==
    InitState([calls |-> MaxCalls, ticks |-> MaxTicks, merges |-> MaxMerges,
               users |-> Users, amounts |-> Amounts, countries |-> {"US"},
               hours |-> {5}, deltas |-> Deltas, updates |-> ThresholdUpdates,
               raises |-> {FALSE}, sink |-> {TRUE},
               headers |-> {AdminHeader}, store |-> {TRUE}], {FALSE})

\* Time passes.
Tick ==
    /\ workload.ticks > 0
    /\ \E d \in workload.deltas : clock' = clock + d
    /\ workload' = [workload EXCEPT !.ticks = @ - 1]
    /\ UNCHANGED <<redis_txn, redis_amt, redis_last_country, redis_config,
                   CURRENT_CONFIG, models_loaded, transactions, running,
                   admin_logs, hist, last, config_reply, frames>>

\* POST /predict
predict ==
    /\ running
    /\ workload.calls > 0
    /\ \E user_id \in workload.users, amount \in workload.amounts,
          country \in workload.countries, hour \in workload.hours,
          score \in scorer(models_loaded, workload.raises),
          written \in workload.sink :
        LET now == clock
            uv  == update_velocity(redis_txn[user_id], redis_amt[user_id], now, amount)
            geo == get_and_update_country(redis_last_country[user_id], country, now)
            X   == build_features(amount, country, uv.txn_count, uv.amt_sum,
                                  geo.last_country, hour)
            cfg == CURRENT_CONFIG
            result == IF score = <<>> THEN ScorerError
                      ELSE predict_rules(cfg, amount, X, score[1], score[2])
            data == [user_id |-> user_id, amount |-> amount, country |-> country,
                     risk_score |-> score[1], anomaly_score |-> score[2]]
            lg  == log_transaction(transactions, data, result, written)
            res == IF result.returned /\ lg.raised THEN SinkError ELSE result
        IN  /\ redis_txn' = [redis_txn EXCEPT ![user_id] = uv.txn]
            /\ transactions' = IF result.returned THEN lg.rows ELSE transactions
            /\ redis_amt' = [redis_amt EXCEPT ![user_id] = uv.amt]
            /\ redis_last_country' = [redis_last_country EXCEPT ![user_id] = geo.key]
            /\ hist' = [hist EXCEPT ![user_id] =
                          Append(@, [ts |-> now, amount |-> amount, country |-> country,
                                     action |-> res.action])]
            /\ last' = [ op            |-> "predict",
                         user_id       |-> user_id,
                         amount        |-> amount,
                         country       |-> country,
                         now           |-> now,
                         txn_count     |-> uv.txn_count,
                         amt_sum       |-> uv.amt_sum,
                         got           |-> geo.got,
                         last_country  |-> geo.last_country,
                         X             |-> X,
                         raised        |-> score = <<>>,
                         risk_score    |-> IF score = <<>> THEN "unassigned" ELSE score[1],
                         anomaly_score |-> IF score = <<>> THEN "unassigned" ELSE score[2],
                         cfg           |-> cfg,
                         sink          |-> IF ~result.returned THEN "not reached"
                                           ELSE IF written THEN "written" ELSE "failed",
                         returned      |-> res.returned,
                         action        |-> res.action,
                         reasons       |-> res.reasons ]
    /\ workload' = [workload EXCEPT !.calls = @ - 1]
    /\ UNCHANGED <<clock, redis_config, CURRENT_CONFIG, models_loaded, running,
                   admin_logs, config_reply, frames>>

\* POST /api/admin/config.  stored = FALSE is an r.set that raises (the
\* store cannot be reached): the exception leaves the handler after the
\* loop has written the fields into CURRENT_CONFIG, and the server answers
\* 500.
update_config ==
    /\ running
    /\ workload.merges > 0
    /\ \E body \in workload.updates, authorization \in workload.headers,
          stored \in workload.store :
        LET new_config == merge_config(CURRENT_CONFIG, body)
            old_config == old_config_after(CURRENT_CONFIG, body)
            refused    == check_authorization(authorization)
            error(code) == [op            |-> "update_config",
                            authorization |-> authorization,
                            body          |-> body,
                            before        |-> CURRENT_CONFIG,
                            status        |-> "error",
                            status_code   |-> code]
        IN  IF refused # 0
            THEN /\ config_reply' = error(refused)
                 /\ UNCHANGED <<CURRENT_CONFIG, redis_config, admin_logs>>
            ELSE IF ~stored
            THEN /\ CURRENT_CONFIG' = new_config
                 /\ config_reply' = error(500)
                 /\ UNCHANGED <<redis_config, admin_logs>>
            ELSE /\ CURRENT_CONFIG' = new_config
                 /\ redis_config' = <<json_dumps(new_config)>>
                 /\ admin_logs' = Append(admin_logs,
                                         [admin_action   |-> "CONFIG_UPDATE",
                                          changed_config |-> old_config])
                 /\ config_reply' = [op            |-> "update_config",
                                     authorization |-> authorization,
                                     body          |-> body,
                                     before        |-> CURRENT_CONFIG,
                                     status        |-> "success",
                                     old_config    |-> old_config,
                                     new_config    |-> new_config]
    /\ workload' = [workload EXCEPT !.merges = @ - 1]
    /\ UNCHANGED <<clock, redis_txn, redis_amt, redis_last_country,
                   models_loaded, transactions, running, hist, last, frames>>

Next == Tick \/ predict \/ update_config

Spec == Init /\ [][Next]_vars

\* Last country: two users, one amount, three countries, no scorer.
InitGeo ==
    InitState([calls |-> GeoMaxCalls, ticks |-> MaxTicks, merges |-> MaxMerges,
               users |-> Users, amounts |-> {100}, countries |-> Countries,
               hours |-> {5}, deltas |-> Deltas, updates |-> GeoUpdates,
               raises |-> {FALSE}, sink |-> {TRUE},
               headers |-> {AdminHeader}, store |-> {TRUE}], {FALSE})

SpecGeo == InitGeo /\ [][Next]_vars

\* Rule engine: one user, every kind of input, with and without scorer, and
\* every configuration update.
InitRules ==
    InitState([calls |-> RulesMaxCalls, ticks |-> RulesMaxTicks, merges |-> RulesMaxMerges,
               users |-> {"U1"}, amounts |-> Amounts, countries |-> {"IN", "US"},
               hours |-> Hours, deltas |-> {1}, updates |-> ConfigUpdates,
               raises |-> {FALSE}, sink |-> {TRUE},
               headers |-> {AdminHeader}, store |-> {TRUE}], BOOLEAN)

SpecRules == InitRules /\ [][Next]_vars

\* Window length: one user, calls 1 or 100 seconds apart, merges of
\* velocity_window.
InitWindow ==
    InitState([calls |-> WindowMaxCalls, ticks |-> WindowMaxTicks,
               merges |-> WindowMaxMerges,
               users |-> {"U1"}, amounts |-> Amounts, countries |-> {"US"},
               hours |-> {5}, deltas |-> {1, 100}, updates |-> WindowUpdates,
               raises |-> {FALSE}, sink |-> {TRUE},
               headers |-> {AdminHeader}, store |-> {TRUE}], {FALSE})

SpecWindow == InitWindow /\ [][Next]_vars

\* GET /api/v1/config
get_config ==
    /\ running
    /\ config_reply' = [op     |-> "get_config",
                        status |-> "success",
                        config |-> CURRENT_CONFIG]
    /\ UNCHANGED <<clock, redis_txn, redis_amt, redis_last_country,
                   redis_config, CURRENT_CONFIG, models_loaded, transactions,
                   running, admin_logs, hist, last, frames, workload>>

\* The process is stopped and started again: the module is imported anew
\* and CURRENT_CONFIG = load_config().  Redis and the database keep their
\* content.  readable = FALSE is an r.get that raises (the store cannot be
\* reached): the exception leaves load_config and the import of the module,
\* and there is no process.
restart ==
    \E readable \in workload.store :
        IF readable
        THEN LET loaded == load_config(redis_config)
             IN  /\ redis_config' = loaded.stored
                 /\ CURRENT_CONFIG' = loaded.config
                 /\ running' = TRUE
                 /\ config_reply' = [op |-> "restart", before |-> CURRENT_CONFIG,
                                     readable |-> TRUE]
                 /\ UNCHANGED <<clock, redis_txn, redis_amt, redis_last_country,
                                models_loaded, transactions, admin_logs, hist, last,
                                frames, workload>>
        ELSE /\ running' = FALSE
             /\ config_reply' = [op |-> "restart", before |-> CURRENT_CONFIG,
                                 readable |-> FALSE]
             /\ UNCHANGED <<clock, redis_txn, redis_amt, redis_last_country,
                            redis_config, CURRENT_CONFIG, models_loaded, transactions,
                            admin_logs, hist, last, frames, workload>>

NextAdmin == Next \/ get_config \/ restart

\* Configuration endpoints: sequences of merges, reads and restarts, with
\* one transaction of one user.
InitAdmin ==
    InitState([calls |-> AdminMaxCalls, ticks |-> AdminMaxTicks, merges |-> AdminMaxMerges,
               users |-> {"U1"}, amounts |-> {100}, countries |-> {"US"},
               hours |-> {5}, deltas |-> {1}, updates |-> AdminUpdates,
               raises |-> {FALSE}, sink |-> {TRUE},
               headers |-> {AdminHeader}, store |-> {TRUE}], {FALSE})

SpecAdmin == InitAdmin /\ [][NextAdmin]_vars

\* The Redis server loses its keys (FLUSHALL, or a restart of a server that
\* keeps nothing on disk).
redis_flushall ==
    /\ redis_config # <<>>
    /\ redis_txn' = [u \in Users |-> NoZSet]
    /\ redis_amt' = [u \in Users |-> NoZSet]
    /\ redis_last_country' = [u \in Users |-> NoString]
    /\ redis_config' = <<>>
    /\ UNCHANGED <<clock, CURRENT_CONFIG, models_loaded, transactions, running,
                   admin_logs, hist, last, config_reply, frames, workload>>

NextOutage == NextAdmin \/ redis_flushall

\* Outages: the config store cannot be reached or has lost its keys, the
\* database write of a decision fails, a merge comes without the admin
\* token.
InitOutage ==
    InitState([calls |-> OutageMaxCalls, ticks |-> OutageMaxTicks,
               merges |-> OutageMaxMerges,
               users |-> {"U1"}, amounts |-> {100}, countries |-> {"US"},
               hours |-> Hours, deltas |-> {1}, updates |-> OutageUpdates,
               raises |-> {FALSE}, sink |-> BOOLEAN,
               headers |-> Headers, store |-> BOOLEAN], {FALSE})

SpecOutage == InitOutage /\ [][NextOutage]_vars

\* POST /predict with a body that lacks one of the required fields of
\* TransactionRequest: the request is answered 422 before predict is called.
predict_unprocessable ==
    /\ running
    /\ workload.calls > 0
    /\ last' = [op |-> "unprocessable", status |-> 422]
    /\ workload' = [workload EXCEPT !.calls = @ - 1]
    /\ UNCHANGED <<clock, redis_txn, redis_amt, redis_last_country,
                   redis_config, CURRENT_CONFIG, models_loaded, transactions,
                   running, admin_logs, hist, config_reply, frames>>

NextFaults == Next \/ predict_unprocessable

\* Faults: amounts that are not positive, bodies without a required field,
\* thresholds below 0, a scorer that is absent or raises.
InitFaults ==
    InitState([calls |-> FaultsMaxCalls, ticks |-> FaultsMaxTicks, merges |-> FaultsMaxMerges,
               users |-> {"U1"}, amounts |-> FaultAmounts, countries |-> {"IN", "US"},
               hours |-> {5}, deltas |-> {1}, updates |-> FaultUpdates,
               raises |-> BOOLEAN, sink |-> {TRUE},
               headers |-> {AdminHeader}, store |-> {TRUE}], BOOLEAN)

SpecFaults == InitFaults /\ [][NextFaults]_vars

----------------------------------------------------------------------------
(* Requests served at the same time.  A step of predict is a pair of      *)
(* Redis commands that update_velocity sends one after the other to the    *)
(* txn and the amt key, one command of get_and_update_country, or the      *)
(* evaluation of rules with the config reads it makes; a step of           *)
(* update_config is one assignment or one command.  Every run of these     *)
(* steps is a run of the program.                                          *)

\* predict, line 329: update_velocity starts: now = int(time.time()),
\* r.zadd(txn_key, {now: now}) and r.zadd(amt_key, {amount: now})
uv_zadd(t) ==
    /\ frames[t].pc = "idle"
    /\ t = free_slot(PredictThreads, frames)
    /\ running
    /\ workload.calls > 0
    /\ \E user_id \in workload.users, amount \in workload.amounts,
          country \in workload.countries, hour \in workload.hours :
        /\ redis_txn' = [redis_txn EXCEPT ![user_id] =
                            zadd(LiveZSet(@, clock), clock, clock)]
        /\ redis_amt' = [redis_amt EXCEPT ![user_id] =
                            zadd(LiveZSet(@, clock), amount, clock)]
        /\ frames' = [frames EXCEPT ![t] =
                         [ pc           |-> "uv_zremrangebyscore",
                           user_id      |-> user_id,
                           amount       |-> amount,
                           country      |-> country,
                           hour         |-> hour,
                           now          |-> clock,
                           txn_count    |-> 0,
                           amt_sum      |-> 0,
                           last_country |-> "",
                           score        |-> <<>>,
                           cfg          |-> CURRENT_CONFIG,
                           reads        |-> {},
                           result       |-> Idle ]]
    /\ workload' = [workload EXCEPT !.calls = @ - 1]
    /\ UNCHANGED <<clock, redis_last_country, redis_config, CURRENT_CONFIG,
                   models_loaded, transactions, running, admin_logs, hist,
                   last, config_reply>>

\* r.zremrangebyscore(txn_key, 0, cutoff) and
\* r.zremrangebyscore(amt_key, 0, cutoff)
uv_zremrangebyscore(t) ==
    /\ frames[t].pc = "uv_zremrangebyscore"
    /\ LET f == frames[t]
       IN  /\ redis_txn' = [redis_txn EXCEPT ![f.user_id] =
                   zremrangebyscore(LiveZSet(@, clock), 0, f.now - WINDOW_SECONDS)]
           /\ redis_amt' = [redis_amt EXCEPT ![f.user_id] =
                   zremrangebyscore(LiveZSet(@, clock), 0, f.now - WINDOW_SECONDS)]
           /\ frames' = [frames EXCEPT ![t].pc = "uv_expire"]
    /\ UNCHANGED <<clock, redis_last_country, redis_config, CURRENT_CONFIG,
                   models_loaded, transactions, running, admin_logs, hist,
                   last, config_reply, workload>>

\* r.expire(txn_key, WINDOW_SECONDS) and r.expire(amt_key, WINDOW_SECONDS)
uv_expire(t) ==
    /\ frames[t].pc = "uv_expire"
    /\ LET f == frames[t]
       IN  /\ redis_txn' = [redis_txn EXCEPT ![f.user_id] =
                   expire(LiveZSet(@, clock), WINDOW_SECONDS, clock)]
           /\ redis_amt' = [redis_amt EXCEPT ![f.user_id] =
                   expire(LiveZSet(@, clock), WINDOW_SECONDS, clock)]
           /\ frames' = [frames EXCEPT ![t].pc = "uv_zcard"]
    /\ UNCHANGED <<clock, redis_last_country, redis_config, CURRENT_CONFIG,
                   models_loaded, transactions, running, admin_logs, hist,
                   last, config_reply, workload>>

\* txn_count = r.zcard(txn_key) and
\* amt_sum = sum(map(float, r.zrange(amt_key, 0, -1)))
uv_zcard(t) ==
    /\ frames[t].pc = "uv_zcard"
    /\ LET f == frames[t]
       IN  frames' = [frames EXCEPT
               ![t].pc = "geo_get",
               ![t].txn_count = zcard(LiveZSet(redis_txn[f.user_id], clock)),
               ![t].amt_sum = SumSet(zrange(LiveZSet(redis_amt[f.user_id], clock)))]
    /\ UNCHANGED <<clock, redis_txn, redis_amt, redis_last_country,
                   redis_config, CURRENT_CONFIG, models_loaded, transactions,
                   running, admin_logs, hist, last, config_reply, workload>>

\* predict, line 330: get_and_update_country starts:
\* last_country = r.get(key) or country
geo_get(t) ==
    /\ frames[t].pc = "geo_get"
    /\ LET f == frames[t]
       IN  frames' = [frames EXCEPT
               ![t].pc = "geo_setex",
               ![t].last_country =
                   get_and_update_country(redis_last_country[f.user_id],
                                          f.country, clock).last_country]
    /\ UNCHANGED <<clock, redis_txn, redis_amt, redis_last_country,
                   redis_config, CURRENT_CONFIG, models_loaded, transactions,
                   running, admin_logs, hist, last, config_reply, workload>>

\* r.setex(key, WINDOW_SECONDS, country)
geo_setex(t) ==
    /\ frames[t].pc = "geo_setex"
    /\ LET f == frames[t]
       IN  /\ redis_last_country' = [redis_last_country EXCEPT ![f.user_id] =
                   setex(WINDOW_SECONDS, f.country, clock)]
           /\ frames' = [frames EXCEPT ![t].pc = "rule_velocity"]
    /\ UNCHANGED <<clock, redis_txn, redis_amt, redis_config, CURRENT_CONFIG,
                   models_loaded, transactions, running, admin_logs, hist,
                   last, config_reply, workload>>

\* A value read from the config dict, by the name of a top-level field or
\* of a check; the flag of a check is read as 1 or 0.
Lookup(cfg, n) ==
    IF n \in CheckNames
    THEN IF cfg.enabled_checks[n] THEN 1 ELSE 0
    ELSE cfg[n]

\* The reads of names N from the dict as it is at the time of the read
Reads(cfg, N) == {<<n, Lookup(cfg, n)>> : n \in N}

\* The keys of cfg that the velocity rule (lines 344-346) reads
velocity_rule_reads(cfg, X) ==
    {"velocity"}
    \cup (IF cfg.enabled_checks["velocity"] THEN {"velocity_threshold"} ELSE {})
    \cup (IF cfg.enabled_checks["velocity"] /\ X.txn_count_10min >= cfg.velocity_threshold
          THEN {"velocity_window"} ELSE {})

\* The keys of cfg that the rules after the velocity rule (lines 348-369)
\* read, with the short circuit of `and`
later_rules_reads(cfg, X, risk_score) ==
    LET ec    == cfg.enabled_checks
        both  == ec["ml_risk_score"] /\ ec["amount_spike"]
        risky == both /\ risk_score > cfg.high_risk_threshold
        block == risky /\ RatioAtLeast(X.amount_vs_avg, cfg.amount_spike_multiplier)
    IN  {"ml_risk_score"}
        \cup (IF ec["ml_risk_score"] THEN {"amount_spike"} ELSE {})
        \cup (IF both THEN {"high_risk_threshold"} ELSE {})
        \cup (IF risky THEN {"amount_spike_multiplier"} ELSE {})
        \cup (IF block THEN {}
              ELSE {"geo_location", "amount_spike", "midnight", "anomaly_detection"}
                   \cup (IF ec["amount_spike"] THEN {"amount_spike_multiplier"} ELSE {})
                   \cup (IF ec["anomaly_detection"] THEN {"anomaly_score_threshold"} ELSE {})
                   \cup (IF ec["ml_risk_score"] THEN {"flag_risk_threshold"} ELSE {}))

\* cfg = CURRENT_CONFIG binds the dict itself, not a copy: what predict has
\* seen is the velocity keys as they were when the velocity rule ran (was)
\* and the other keys as they are when the later rules run (is).
config_seen(was, is) ==
    [f \in DOMAIN is |->
        IF f \in {"velocity_threshold", "velocity_window"} THEN was[f]
        ELSE IF f = "enabled_checks"
        THEN [k \in DOMAIN is[f] |-> IF k = "velocity" THEN was[f][k] ELSE is[f][k]]
        ELSE is[f]]

\* predict, lines 332-346: features, scores, and the velocity rule
rule_velocity(t) ==
    /\ frames[t].pc = "rule_velocity"
    /\ \E score \in scorer(models_loaded, workload.raises), written \in workload.sink :
        LET f   == frames[t]
            X   == build_features(f.amount, f.country, f.txn_count, f.amt_sum,
                                  f.last_country, f.hour)
            cfg == CURRENT_CONFIG
            result == IF score = <<>> THEN ScorerError
                      ELSE predict_rules(cfg, f.amount, X, score[1], score[2])
            data == [user_id |-> f.user_id, amount |-> f.amount, country |-> f.country,
                     risk_score |-> score[1], anomaly_score |-> score[2]]
            lg  == log_transaction(transactions, data, result, written)
            res == IF result.returned /\ lg.raised THEN SinkError ELSE result
        IN  IF score = <<>>
            THEN /\ frames' = [frames EXCEPT ![t].pc = "done", ![t].result = res]
                 /\ transactions' = transactions
            ELSE IF result.action \in {"KeyError"}
                    \/ result.reasons = <<VelocityReason(cfg)>>
            THEN /\ frames' = [frames EXCEPT
                                  ![t].pc = "done",
                                  ![t].cfg = cfg,
                                  ![t].reads = Reads(cfg, velocity_rule_reads(cfg, X)
                                                          \cap (DOMAIN cfg \cup DOMAIN cfg.enabled_checks)),
                                  ![t].result = res]
                 /\ transactions' = IF result.returned THEN lg.rows ELSE transactions
            ELSE /\ frames' = [frames EXCEPT ![t].pc = "later_rules",
                                             ![t].score = score,
                                             ![t].cfg = cfg,
                                             ![t].reads = Reads(cfg, velocity_rule_reads(cfg, X))]
                 /\ transactions' = transactions
    /\ UNCHANGED <<clock, redis_txn, redis_amt, redis_last_country,
                   redis_config, CURRENT_CONFIG, models_loaded, running,
                   admin_logs, hist, last, config_reply, workload>>

\* predict, lines 348-385: the risk and spike rule and the FLAG rules
later_rules(t) ==
    /\ frames[t].pc = "later_rules"
    /\ \E written \in workload.sink :
        LET f    == frames[t]
            X    == build_features(f.amount, f.country, f.txn_count, f.amt_sum,
                                   f.last_country, f.hour)
            seen == config_seen(f.cfg, CURRENT_CONFIG)
            result == predict_rules(seen, f.amount, X, f.score[1], f.score[2])
            data == [user_id |-> f.user_id, amount |-> f.amount, country |-> f.country,
                     risk_score |-> f.score[1], anomaly_score |-> f.score[2]]
            lg   == log_transaction(transactions, data, result, written)
            res  == IF result.returned /\ lg.raised THEN SinkError ELSE result
        IN  /\ frames' = [frames EXCEPT
                             ![t].pc = "done",
                             ![t].cfg = seen,
                             ![t].reads = @ \cup
                                 IF result.action = "KeyError" THEN {}
                                 ELSE Reads(CURRENT_CONFIG,
                                            later_rules_reads(seen, X, f.score[1])),
                             ![t].result = res]
            /\ transactions' = IF result.returned THEN lg.rows ELSE transactions
    /\ UNCHANGED <<clock, redis_txn, redis_amt, redis_last_country,
                   redis_config, CURRENT_CONFIG, models_loaded, running,
                   admin_logs, hist, last, config_reply, workload>>

\* The fields of ConfigUpdate in the order of their declaration, which is
\* the order of config_update.dict(exclude_unset=True).items()
FieldOrder ==
    << "velocity_threshold", "velocity_window", "high_risk_threshold",
       "flag_risk_threshold", "amount_spike_multiplier", "anomaly_score_threshold",
       "baseline_amount", "enabled_checks" >>

Started(m) == frames[m].pc # "idle"

InFlight == {m \in Mergers : frames[m].pc \notin {"idle", "done"}}

\* A handler that other handlers may interrupt, as a plain def would be.
event_loop_never_waits(m) == TRUE

\* update_config is an async def with no await in its body: once the event
\* loop has started it, no other coroutine runs until it returns.
event_loop_free(m) == InFlight \ {m} = {}

\* update_config, lines 523-536: the token is accepted and
\* old_config = CURRENT_CONFIG.copy()
uc_copy(m) ==
    /\ frames[m].pc = "idle"
    /\ m = free_slot(Mergers, frames)
    /\ running
    /\ workload.merges > 0
    /\ event_loop_free(m)
    /\ \E body \in workload.updates :
        frames' = [frames EXCEPT ![m] =
                      [ pc     |-> "uc_assign",
                        body   |-> body,
                        before |-> CURRENT_CONFIG,
                        order  |-> Cardinality({o \in Mergers : Started(o)}),
                        todo   |-> SelectSeq(FieldOrder, LAMBDA f : f \in DOMAIN body),
                        text   |-> <<>> ]]
    /\ workload' = [workload EXCEPT !.merges = @ - 1]
    /\ UNCHANGED <<clock, redis_txn, redis_amt, redis_last_country,
                   redis_config, CURRENT_CONFIG, models_loaded, transactions,
                   running, admin_logs, hist, last, config_reply>>

\* One turn of the loop of lines 538-543: one field of the body is written
\* into CURRENT_CONFIG.
uc_assign(m) ==
    /\ frames[m].pc = "uc_assign"
    /\ LET f     == frames[m]
           field == Head(f.todo)
           one   == [x \in {field} |-> f.body[x]]
       IN  /\ CURRENT_CONFIG' = merge_config(CURRENT_CONFIG, one)
           /\ frames' = [frames EXCEPT ![m].todo = Tail(@),
                                       ![m].pc = IF Tail(f.todo) = <<>>
                                                 THEN "uc_dumps" ELSE "uc_assign"]
    /\ UNCHANGED <<clock, redis_txn, redis_amt, redis_last_country,
                   redis_config, models_loaded, transactions, running,
                   admin_logs, hist, last, config_reply, workload>>

\* Line 546, the argument: json.dumps(CURRENT_CONFIG)
uc_dumps(m) ==
    /\ frames[m].pc = "uc_dumps"
    /\ frames' = [frames EXCEPT ![m].pc = "uc_set",
                                ![m].text = <<json_dumps(CURRENT_CONFIG)>>]
    /\ UNCHANGED <<clock, redis_txn, redis_amt, redis_last_country,
                   redis_config, CURRENT_CONFIG, models_loaded, transactions,
                   running, admin_logs, hist, last, config_reply, workload>>

\* Line 546, the command: r.set(CONFIG_KEY, ...)
uc_set(m) ==
    /\ frames[m].pc = "uc_set"
    /\ redis_config' = frames[m].text
    /\ frames' = [frames EXCEPT ![m].pc = "uc_log"]
    /\ UNCHANGED <<clock, redis_txn, redis_amt, redis_last_country,
                   CURRENT_CONFIG, models_loaded, transactions, running,
                   admin_logs, hist, last, config_reply, workload>>

\* Lines 549-557: the audit row and the response
uc_log(m) ==
    /\ frames[m].pc = "uc_log"
    /\ LET f          == frames[m]
           old_config == [f.before EXCEPT !.enabled_checks =
                             old_config_after(f.before, f.body).enabled_checks]
       IN  /\ admin_logs' = Append(admin_logs,
                                   [admin_action   |-> "CONFIG_UPDATE",
                                    changed_config |-> old_config])
           /\ config_reply' = [op         |-> "update_config",
                               authorization |-> AdminHeader,
                               body       |-> f.body,
                               before     |-> f.before,
                               status     |-> "success",
                               old_config |-> old_config,
                               new_config |-> CURRENT_CONFIG]
           /\ frames' = [frames EXCEPT ![m].pc = "done"]
    /\ UNCHANGED <<clock, redis_txn, redis_amt, redis_last_country,
                   redis_config, CURRENT_CONFIG, models_loaded, transactions,
                   running, hist, last, workload>>

NextConc ==
    \/ Tick
    \/ \E t \in PredictThreads :
          \/ uv_zadd(t) \/ uv_zremrangebyscore(t) \/ uv_expire(t) \/ uv_zcard(t)
          \/ geo_get(t) \/ geo_setex(t) \/ rule_velocity(t) \/ later_rules(t)
    \/ \E m \in Mergers :
          uc_copy(m) \/ uc_assign(m) \/ uc_dumps(m) \/ uc_set(m) \/ uc_log(m)

\* Two transactions of one user and a merge, all at the same time; the
\* scorer is not loaded.
InitConc ==
    InitState([calls |-> ConcMaxCalls, ticks |-> ConcMaxTicks, merges |-> ConcMaxMerges,
               users |-> {"U1"}, amounts |-> {100}, countries |-> {"IN", "US"},
               hours |-> {5}, deltas |-> {1}, updates |-> ConcUpdates,
               raises |-> {FALSE}, sink |-> {TRUE},
               headers |-> {AdminHeader}, store |-> {TRUE}], {FALSE})

SpecConc == InitConc /\ [][NextConc]_vars

\* Two merges and a transaction, all at the same time.
InitMergers ==
    InitState([calls |-> MergersMaxCalls, ticks |-> MergersMaxTicks,
               merges |-> MergersMaxMerges,
               users |-> {"U1"}, amounts |-> {100}, countries |-> {"US"},
               hours |-> {5}, deltas |-> {1}, updates |-> ConcUpdates,
               raises |-> {FALSE}, sink |-> {TRUE},
               headers |-> {AdminHeader}, store |-> {TRUE}], {FALSE})

SpecMergers == InitMergers /\ [][NextConc]_vars

TypeOK ==
    /\ clock \in Nat
    /\ models_loaded \in BOOLEAN
    /\ last.op \in {"none", "predict", "unprocessable"}

----------------------------------------------------------------------------
(* Velocity window: claims about update_velocity (specification Spec) *)

Called == last.op = "predict"

\* The calls update_velocity has seen for the user of the last call, oldest
\* first; the last entry is the last call itself.
Events == hist[last.user_id]

\* Indices of the calls whose timestamp is > now - W
InWindow == {i \in 1..Len(Events) : Events[i].ts > last.now - WINDOW_SECONDS}

RECURSIVE SumAmounts(_, _)
SumAmounts(h, I) ==
    IF I = {} THEN 0
    ELSE LET i == CHOOSE j \in I : TRUE IN h[i].amount + SumAmounts(h, I \ {i})

\* C1: the count returned by update_velocity at time now is the number of
\* the user's calls so far, this one included, with timestamp > now - W.
C1_CountIsCallsInWindow ==
    Called => last.txn_count = Cardinality(InWindow)

\* C2: every call is one event: when all n calls of a user fall inside one
\* window, also calls in the same second, the n-th returns count n; with
\* velocity_threshold = 3 the third of three calls made within 5 seconds
\* returns BLOCK for velocity with velocity_count = 3.
C2_EachCallIsOneEvent ==
    Called =>
        LET n == Len(Events) IN
        /\ InWindow = 1..n => last.txn_count = n
        /\ ( /\ n = 3
             /\ last.now - Events[1].ts <= 5
             /\ last.cfg.velocity_threshold = 3
             /\ last.cfg.enabled_checks["velocity"] )
           => /\ last.returned
              /\ last.action = "BLOCK"
              /\ last.reasons = <<VelocityReason(last.cfg)>>
              /\ last.txn_count = 3

\* C3: the sum returned by update_velocity is the sum of the amounts of the
\* surviving events, each event counted once.
C3_SumIsSumOfEvents ==
    Called => last.amt_sum = SumAmounts(Events, InWindow)

\* update_velocity applied in turn to the first n events of h, from no keys.
RECURSIVE replay_velocity(_, _)
replay_velocity(h, n) ==
    IF n = 0
    THEN [txn |-> NoZSet, amt |-> NoZSet, txn_count |-> 0, amt_sum |-> 0]
    ELSE LET before == replay_velocity(h, n - 1)
         IN  update_velocity(before.txn, before.amt, h[n].ts, h[n].amount)

NotOlderThanWindow(e) == e.ts >= last.now - WINDOW_SECONDS

\* C4: an event strictly older than now - W contributes neither to the count
\* nor to the sum of a call at time now: the call returns what it would
\* return had the older events never happened, and no entry left in the
\* user's two sorted sets is older than now - W.
C4_OldEventsDoNotCount ==
    Called =>
        LET recent == SelectSeq(Events, NotOlderThanWindow)
            alone  == replay_velocity(recent, Len(recent))
        IN  /\ last.txn_count = alone.txn_count
            /\ last.amt_sum = alone.amt_sum
            /\ \A e \in redis_txn[last.user_id].v \cup redis_amt[last.user_id].v :
                   e.score >= last.now - WINDOW_SECONDS

\* A call made when the user has an event strictly older than now - W, an
\* event exactly at now - W or newer, and the call's own event.
C4_Witness ==
    /\ Called
    /\ \E i \in 1..Len(Events) : Events[i].ts < last.now - WINDOW_SECONDS
    /\ Len(SelectSeq(Events, NotOlderThanWindow)) >= 2

\* C28: the window length that update_velocity uses to discard and to
\* count events is velocity_window of the current config, the length that
\* the velocity BLOCK reason reports, also after a merge has changed
\* velocity_window: the count is that of the seconds with a call in the
\* last velocity_window seconds, no older entry is left, and the keys
\* expire velocity_window seconds after the call.
C28_WindowFollowsConfig ==
    Called =>
        LET w      == last.cfg.velocity_window
            recent == {i \in 1..Len(Events) : Events[i].ts > last.now - w}
        IN  /\ last.txn_count = Cardinality({Events[i].ts : i \in recent})
            /\ \A e \in redis_txn[last.user_id].v \cup redis_amt[last.user_id].v :
                   e.score > last.now - w
            /\ redis_txn[last.user_id].exp = last.now + w
            /\ redis_amt[last.user_id].exp = last.now + w
            /\ \A i \in 1..Len(last.reasons) :
                   last.reasons[i].kind = "High transaction velocity"
                       => last.reasons[i].q = w

----------------------------------------------------------------------------
(* Last country: claims about get_and_update_country (specification SpecGeo) *)

OnlyGeoEnabled(cfg) ==
    /\ DOMAIN cfg.enabled_checks = CheckNames
    /\ \A k \in CheckNames : cfg.enabled_checks[k] <=> (k = "geo_location")

\* C9: the first transaction of a user, who has no last-country record,
\* yields is_new_country = 0 whatever its country; the new-country reason is
\* not given, and with every check but geo_location disabled the decision is
\* ALLOW.
C9_ColdStartNoNewCountry ==
    (Called /\ Len(Events) = 1) =>
        /\ last.got = <<>>
        /\ last.X.is_new_country = 0
        /\ NewCountryReason \notin Range(last.reasons)
        /\ OnlyGeoEnabled(last.cfg) =>
              /\ last.returned
              /\ last.action = "ALLOW"
              /\ last.reasons = <<NormalReason>>

\* A first transaction, from a country with a name, decided with only the
\* geo_location check enabled.
C9_Witness ==
    /\ Called
    /\ Len(Events) = 1
    /\ last.country = "IN"
    /\ OnlyGeoEnabled(last.cfg)
    /\ last.action = "ALLOW"

\* C10: get_and_update_country returns the country stored by the user's
\* previous call when that record is not older than W seconds and the call's
\* own country when there is no record or it has expired; it then stores the
\* call's country with expiry now + W; a transaction after more than W idle
\* seconds does not report a new country.
C10_ReturnsPreviousCountry ==
    Called =>
        LET n    == Len(Events)
            kept == n >= 2 /\ last.now - Events[n - 1].ts <= WINDOW_SECONDS
        IN  /\ last.last_country = IF kept THEN Events[n - 1].country ELSE last.country
            /\ redis_last_country[last.user_id] =
                   [v |-> <<last.country>>, exp |-> last.now + WINDOW_SECONDS]
            /\ ~kept => last.X.is_new_country = 0

----------------------------------------------------------------------------
(* Rule engine: claims about the decision of predict (specification SpecRules) *)

\* What the last call of predict returned
Result == [returned |-> last.returned, action |-> last.action, reasons |-> last.reasons]

Enabled(k) == k \in DOMAIN last.cfg.enabled_checks /\ last.cfg.enabled_checks[k]

VelocityTripped == last.txn_count >= last.cfg.velocity_threshold

SpikeTripped == RatioAtLeast(last.X.amount_vs_avg, last.cfg.amount_spike_multiplier)

\* C5: whenever the velocity check is enabled and velocity_count >=
\* velocity_threshold, the decision is BLOCK with the velocity reason as its
\* only reason, whatever the other rules would give.
C5_VelocityRuleFirst ==
    (Called /\ Enabled("velocity") /\ VelocityTripped) =>
        /\ last.returned
        /\ last.action = "BLOCK"
        /\ last.reasons = <<VelocityReason(last.cfg)>>

\* The velocity rule trips together with the risk and spike BLOCK rule and
\* with FLAG rules.
C5_Witness ==
    /\ Called
    /\ Enabled("velocity") /\ VelocityTripped
    /\ Enabled("ml_risk_score") /\ Enabled("amount_spike") /\ Enabled("midnight")
    /\ last.risk_score > last.cfg.high_risk_threshold
    /\ SpikeTripped
    /\ last.X.is_midnight_txn = 1
    /\ last.txn_count > last.cfg.velocity_threshold
    /\ last.action = "BLOCK"

\* C6: velocity_count = velocity_threshold triggers the velocity BLOCK rule
\* and velocity_count = velocity_threshold - 1 does not; risk_score =
\* high_risk_threshold does not trigger the risk and spike BLOCK rule;
\* amount_vs_avg = amount_spike_multiplier satisfies the spike condition.
AtSpikeBoundary ==
    last.X.amount_vs_avg.num * 100 = last.cfg.amount_spike_multiplier * last.X.amount_vs_avg.den

C6_ThresholdBoundaries ==
    Called =>
        /\ (Enabled("velocity") /\ last.txn_count = last.cfg.velocity_threshold)
              => Result = Decision("BLOCK", <<VelocityReason(last.cfg)>>)
        /\ last.txn_count = last.cfg.velocity_threshold - 1
              => VelocityReason(last.cfg) \notin Range(last.reasons)
        /\ last.risk_score = last.cfg.high_risk_threshold
              => RiskSpikeReason \notin Range(last.reasons)
        /\ (last.returned /\ AtSpikeBoundary /\ Enabled("amount_spike")
               /\ ~(Enabled("velocity") /\ VelocityTripped))
              => IF Enabled("ml_risk_score") /\ last.risk_score > last.cfg.high_risk_threshold
                 THEN Result = Decision("BLOCK", <<RiskSpikeReason>>)
                 ELSE /\ last.action = "FLAG"
                      /\ AmountSpikeReason(last.amount) \in Range(last.reasons)

\* One below the velocity threshold, exactly at the high risk threshold and
\* exactly at the spike multiplier: flagged for the amount, not blocked.
C6_Witness ==
    /\ Called
    /\ \A k \in CheckNames : Enabled(k)
    /\ last.txn_count = last.cfg.velocity_threshold - 1
    /\ last.risk_score = last.cfg.high_risk_threshold
    /\ AtSpikeBoundary
    /\ last.action = "FLAG"
    /\ AmountSpikeReason(last.amount) \in Range(last.reasons)

Min(a, b) == IF a <= b THEN a ELSE b

\* The inputs of the last decision, changed so that the condition of check k
\* is false.
Quiet(k) ==
    LET c    == last.cfg
        same == [X |-> last.X, risk_score |-> last.risk_score,
                 anomaly_score |-> last.anomaly_score]
    IN  CASE k = "velocity" ->
               [same EXCEPT !.X.txn_count_10min = c.velocity_threshold - 1]
          [] k = "geo_location" ->
               [same EXCEPT !.X.is_new_country = 0]
          [] k = "amount_spike" ->
               [same EXCEPT !.X.amount_vs_avg =
                                [num |-> c.amount_spike_multiplier - 1, den |-> 100]]
          [] k = "midnight" ->
               [same EXCEPT !.X.is_midnight_txn = 0]
          [] k = "ml_risk_score" ->
               [same EXCEPT !.risk_score =
                                Min(c.high_risk_threshold, c.flag_risk_threshold)]
          [] k = "anomaly_detection" ->
               [same EXCEPT !.anomaly_score = c.anomaly_score_threshold]

C8_ActionAndReasons ==
    (Called /\ last.returned) =>
        /\ last.action \in {"ALLOW", "FLAG", "BLOCK"}
        /\ Len(last.reasons) >= 1

\* A decision made after a merge in which no rule tripped.
C8_Witness ==
    /\ Called
    /\ last.returned
    /\ last.cfg # DEFAULT_CONFIG
    /\ last.action = "ALLOW"
    /\ last.reasons = <<NormalReason>>

\* The five FLAG checks in the order of the code, each with its reason
FlagReasons ==
    << NewCountryReason, AmountSpikeReason(last.amount), MidnightReason,
       AnomalyReason, RiskPatternReason >>

\* FLAG check i is enabled and its condition holds for the last call.
FlagTripped(i) ==
    CASE i = 1 -> Enabled("geo_location") /\ last.X.is_new_country = 1
      [] i = 2 -> Enabled("amount_spike") /\ SpikeTripped
      [] i = 3 -> Enabled("midnight") /\ last.X.is_midnight_txn = 1
      [] i = 4 -> Enabled("anomaly_detection")
                  /\ last.anomaly_score > last.cfg.anomaly_score_threshold
      [] i = 5 -> Enabled("ml_risk_score")
                  /\ last.risk_score > last.cfg.flag_risk_threshold

NoBlockRuleFired ==
    /\ ~(Enabled("velocity") /\ VelocityTripped)
    /\ ~( /\ Enabled("ml_risk_score") /\ Enabled("amount_spike")
          /\ last.risk_score > last.cfg.high_risk_threshold
          /\ SpikeTripped )

\* The position of a reason among the five FLAG reasons
FlagIndex(reason) == CHOOSE i \in 1..5 : FlagReasons[i] = reason

\* C26: in a decision in which neither BLOCK rule fired, each of the five
\* FLAG checks (new country, amount spike, midnight, anomaly threshold,
\* risk-pattern threshold) has its reason among the reasons exactly when it
\* tripped, whatever the other four did, and the reasons come in that
\* order; the action is FLAG exactly when at least one tripped, and ALLOW
\* with the single canned reason otherwise.
C26_FlagChecksIndependent ==
    (Called /\ last.returned /\ NoBlockRuleFired) =>
        LET tripped == {i \in 1..5 : FlagTripped(i)}
        IN  IF tripped = {}
            THEN Result = Decision("ALLOW", <<NormalReason>>)
            ELSE /\ last.action = "FLAG"
                 /\ Range(last.reasons) = {FlagReasons[i] : i \in tripped}
                 /\ Len(last.reasons) = Cardinality(tripped)
                 /\ \A j, k \in 1..Len(last.reasons) :
                        j < k => FlagIndex(last.reasons[j]) < FlagIndex(last.reasons[k])

\* A transaction from a new country at a midnight hour with an anomaly
\* score and a risk score above their FLAG thresholds and no amount spike:
\* four reasons, in the order of the checks.
C26_Witness ==
    /\ Called
    /\ last.returned
    /\ NoBlockRuleFired
    /\ {i \in 1..5 : FlagTripped(i)} = {1, 3, 4, 5}
    /\ last.action = "FLAG"
    /\ last.reasons = <<NewCountryReason, MidnightReason, AnomalyReason,
                        RiskPatternReason>>

\* The calls of h without the i-th
Without(h, i) == [j \in 1..(Len(h) - 1) |-> IF j < i THEN h[j] ELSE h[j + 1]]

\* C29: every call of predict, whatever it decides and whatever checks are
\* enabled, leaves its event in the user's velocity window and its country
\* in the user's geo state; an earlier call that was BLOCKed, with its
\* timestamp inside the window, counts in velocity_count: the count is one
\* more than it is without that call.
C29_BlockedCallsCount ==
    Called =>
        LET n == Len(Events)
        IN  /\ \E e \in redis_txn[last.user_id].v : e.score = last.now
            /\ \E e \in redis_amt[last.user_id].v :
                   e.score = last.now /\ e.member = last.amount
            /\ redis_last_country[last.user_id]
                   = setex(WINDOW_SECONDS, last.country, last.now)
            /\ \A i \in 1..(n - 1) :
                   ( /\ Events[i].action = "BLOCK"
                     /\ Events[i].ts > last.now - WINDOW_SECONDS )
                   => last.txn_count
                         = replay_velocity(Without(Events, i), n - 1).txn_count + 1

----------------------------------------------------------------------------
(* Configuration merge: claims about update_config (specification SpecAdmin) *)

Merged == config_reply.op = "update_config"

\* The config recorded by the audit row of the last merge
AuditedConfig == admin_logs[Len(admin_logs)].changed_config

\* C14: the old config returned by a merge, and the config stored in its
\* admin audit record, equal the full config as it was immediately before
\* the merge, nested enabled_checks entries included, also when the merge
\* changes enabled_checks.
C14_MergeReturnsPriorConfig ==
    Merged =>
        /\ config_reply.old_config = config_reply.before
        /\ AuditedConfig = config_reply.before

\* The config held under the Redis key "fraud_config"
Persisted == json_loads(redis_config[1])

TopLevelOnly(body) == "enabled_checks" \notin DOMAIN body

\* C15: a merge whose partial holds only top-level fields sets exactly those
\* fields and leaves every other field, including every enabled_checks
\* entry, unchanged, in memory and in the persisted copy.
C15_TopLevelMergeIsolation ==
    (Merged /\ TopLevelOnly(config_reply.body)) =>
        /\ DOMAIN CURRENT_CONFIG = DOMAIN config_reply.before
        /\ \A f \in DOMAIN CURRENT_CONFIG :
              CURRENT_CONFIG[f] = IF f \in DOMAIN config_reply.body
                                  THEN config_reply.body[f]
                                  ELSE config_reply.before[f]
        /\ Persisted = CURRENT_CONFIG
        /\ config_reply.new_config = CURRENT_CONFIG

\* The body of src/test_api.py (velocity_threshold = 5 and one more field)
\* merged into a config in which an earlier merge had changed other
\* thresholds or disabled checks.
C15_Witness ==
    /\ Merged
    /\ config_reply.body \in ThresholdUpdates
    /\ config_reply.before # DEFAULT_CONFIG
    /\ CURRENT_CONFIG.velocity_threshold = 5
    /\ \/ CURRENT_CONFIG.baseline_amount = 2000
       \/ \E k \in DOMAIN CURRENT_CONFIG.enabled_checks :
              ~CURRENT_CONFIG.enabled_checks[k]

\* C16: for every partial that contains enabled_checks, with any subset of
\* check names including the empty map, the merge sets only the listed
\* sub-keys and keeps every other enabled_checks entry in place; the map is
\* never replaced as a whole.
C16_ChecksMergeKeyByKey ==
    (Merged /\ ~TopLevelOnly(config_reply.body)) =>
        LET listed == config_reply.body["enabled_checks"]
            was    == config_reply.before.enabled_checks
            now    == CURRENT_CONFIG.enabled_checks
        IN  /\ DOMAIN now = DOMAIN was \cup DOMAIN listed
            /\ \A k \in DOMAIN now :
                  now[k] = IF k \in DOMAIN listed THEN listed[k] ELSE was[k]

\* C17: the config changes only by a merge, which leaves the merged values
\* it returns; every config read returns the in-memory config; the
\* persisted copy, read back, equals the in-memory config; so a restart
\* leaves the config as it was before the restart.
C17_Step ==
    /\ admin_logs' = admin_logs => CURRENT_CONFIG' = CURRENT_CONFIG
    /\ admin_logs' # admin_logs =>
          /\ config_reply'.op = "update_config"
          /\ config_reply'.status = "success"
          /\ CURRENT_CONFIG' = config_reply'.new_config
    /\ (config_reply' # config_reply /\ config_reply'.op = "get_config") =>
          config_reply'.config = CURRENT_CONFIG
    /\ json_loads(redis_config'[1]) = CURRENT_CONFIG'

C25_BaselineFromConfig ==
    Called =>
        LET b == Max(last.cfg.baseline_amount, 1)
        IN  last.X.amount_vs_avg.num * b
                = Min(last.amount, 20 * b) * last.X.amount_vs_avg.den

\* C27: after any sequence of successful merges enabled_checks holds all
\* six check names, so that every call of predict can read each flag and
\* returns a decision.
C27_AllChecksRemain ==
    /\ CheckNames \subseteq DOMAIN CURRENT_CONFIG.enabled_checks
    /\ Called => last.returned

\* The ranges of the thresholds and the names of the checks
ValidConfig(cfg) ==
    /\ cfg.high_risk_threshold \in 0..100
    /\ cfg.flag_risk_threshold \in 0..100
    /\ cfg.amount_spike_multiplier >= 100
    /\ DOMAIN cfg.enabled_checks \subseteq CheckNames

\* C22: a merge rejects a threshold that is out of its range and a check
\* name that is not one of the known checks: neither the in-memory nor the
\* persisted config ever holds a high or flag risk threshold outside
\* [0, 1], a spike multiplier below 1 or an unknown check name.
C22_StoredConfigIsValid ==
    /\ ValidConfig(CURRENT_CONFIG)
    /\ ValidConfig(Persisted)

----------------------------------------------------------------------------
(* Faults: malformed input and the scorer (specification SpecFaults) *)

WindowAndGeoUnchanged ==
    UNCHANGED <<redis_txn, redis_amt, redis_last_country>>

\* C18: a transaction with a non-positive amount, or without a required
\* identifier, is rejected before the velocity tracker is reached: the call
\* returns no decision and the velocity window and geo state are the same
\* after the call as before it.
C18_Step ==
    /\ (hist' # hist /\ last'.amount <= 0) =>
          /\ ~last'.returned
          /\ WindowAndGeoUnchanged
    /\ (last' # last /\ last'.op = "unprocessable") =>
          /\ hist' = hist
          /\ WindowAndGeoUnchanged

C18_MalformedLeavesNoTrace == [][C18_Step]_vars

RiskOrAnomalyReasons == {RiskSpikeReason, AnomalyReason, RiskPatternReason}

\* C19: with the scorer unavailable risk_score and anomaly_score are 0 and
\* no risk- or anomaly-dependent rule fires, under every config reached by
\* merges: the decision is BLOCK by velocity, FLAG by new country, amount
\* spike or midnight, or ALLOW; with all other signals absent it is ALLOW.
C19_NoScorerNoScoreRules ==
    (Called /\ ~models_loaded) =>
        /\ last.risk_score = 0
        /\ last.anomaly_score = 0
        /\ last.returned
        /\ Range(last.reasons) \cap RiskOrAnomalyReasons = {}
        /\ \/ Result = Decision("BLOCK", <<VelocityReason(last.cfg)>>)
           \/ /\ last.action = "FLAG"
              /\ Range(last.reasons) \subseteq
                     {NewCountryReason, AmountSpikeReason(last.amount), MidnightReason}
           \/ Result = Decision("ALLOW", <<NormalReason>>)
        /\ ( /\ ~VelocityTripped
             /\ last.X.is_new_country = 0
             /\ ~SpikeTripped
             /\ last.X.is_midnight_txn = 0 )
           => Result = Decision("ALLOW", <<NormalReason>>)

\* C20: when the scorer raises during a call of predict, the call falls
\* back to risk_score = 0 and anomaly_score = 0 and returns the decision of
\* the rules for these scores.
C20_ScorerFailureFallsBack ==
    (Called /\ last.raised) =>
        /\ last.returned
        /\ Result = predict_rules(last.cfg, last.amount, last.X, 0, 0)

----------------------------------------------------------------------------
(* Requests at the same time: claims about predict and update_config       *)
(* (specifications SpecConc and SpecMergers)                               *)

Done(p) == frames[p].pc = "done"

\* The two calls of predict, made one after the other from a user with no
\* keys, first p and then q, each at its own second `now`: what they
\* return and what they leave in Redis.
SerialOutcome(p, q) ==
    LET P  == frames[p]
        Q  == frames[q]
        v1 == update_velocity(NoZSet, NoZSet, P.now, P.amount)
        g1 == get_and_update_country(NoString, P.country, P.now)
        v2 == update_velocity(v1.txn, v1.amt, Q.now, Q.amount)
        g2 == get_and_update_country(g1.key, Q.country, Q.now)
    IN  /\ P.txn_count = v1.txn_count
        /\ P.amt_sum = v1.amt_sum
        /\ P.last_country = g1.last_country
        /\ Q.txn_count = v2.txn_count
        /\ Q.amt_sum = v2.amt_sum
        /\ Q.last_country = g2.last_country
        /\ redis_txn[Q.user_id].v = v2.txn.v
        /\ redis_amt[Q.user_id].v = v2.amt.v
        /\ redis_last_country[Q.user_id].v = g2.key.v

\* C11: two calls of predict for the same user, also when they are served
\* at the same time, leave the window and geo state and return the values
\* of one of the two serial orders of the calls: the counts are those of a
\* first and of a second call, and the later call gets the country of the
\* earlier one as last_country.
C11_ConcurrentPredictsSerialize ==
    (Done("t1") /\ Done("t2") /\ frames["t1"].user_id = frames["t2"].user_id) =>
        SerialOutcome("t1", "t2") \/ SerialOutcome("t2", "t1")

\* The configs between merges: the config at start-up and, for every merge
\* begun, the config before it and the config with its whole body merged.
CommittedConfigs ==
    {load_config(<<>>).config}
    \cup {frames[m].before : m \in {x \in Mergers : Started(x)}}
    \cup {merge_config(frames[m].before, frames[m].body) :
             m \in {x \in Mergers : Started(x)}}

\* C12: the values a decision has read from the config, also when a merge
\* was in progress while it was computed, are all values of one config:
\* the config before a merge or the config with the merge complete.
C12_DecisionSeesOneConfig ==
    \A t \in PredictThreads :
        (Done(t) /\ frames[t].result.returned) =>
            \E c \in CommittedConfigs :
                \A rd \in frames[t].reads : Lookup(c, rd[1]) = rd[2]

\* The names a merge can write: the top-level fields of ConfigUpdate other
\* than enabled_checks, and the names of the checks
WritableNames == (Range(FieldOrder) \ {"enabled_checks"}) \cup CheckNames

\* Merge m writes name n
Writes(m, n) ==
    /\ Started(m)
    /\ IF n \in CheckNames
       THEN /\ "enabled_checks" \in DOMAIN frames[m].body
            /\ n \in DOMAIN frames[m].body["enabled_checks"]
       ELSE n \in DOMAIN frames[m].body

Written(m, n) ==
    IF n \in CheckNames
    THEN IF frames[m].body["enabled_checks"][n] THEN 1 ELSE 0
    ELSE frames[m].body[n]

\* The value of name n after the merges made: that of the last merge that
\* writes n, and the start-up value when none does.
LastWritten(n) ==
    LET W == {m \in Mergers : Writes(m, n)}
    IN  IF W = {} THEN Lookup(load_config(<<>>).config, n)
        ELSE Written(CHOOSE m \in W : \A o \in W : frames[o].order <= frames[m].order, n)

\* The bodies of the first k merges begun, merged one after the other
\* into the start-up config
RECURSIVE MergedInOrder(_)
MergedInOrder(k) ==
    IF k = 0 THEN load_config(<<>>).config
    ELSE LET m == CHOOSE x \in Mergers : Started(x) /\ frames[x].order = k - 1
         IN  merge_config(MergedInOrder(k - 1), frames[m].body)

\* C13: merges made at the same time do not lose updates: when the merges
\* begun have completed, the in-memory config and the persisted config
\* hold, for every field and every check, the value of the last merge that
\* wrote it, and are the config that the merges give one after the other;
\* and the writes of one merge are never interleaved with those of another.
C13_MergesDoNotLoseUpdates ==
    /\ Cardinality(InFlight) <= 1
    /\ InFlight = {} =>
          /\ \A n \in WritableNames : Lookup(CURRENT_CONFIG, n) = LastWritten(n)
          /\ CURRENT_CONFIG = MergedInOrder(Cardinality({m \in Mergers : Started(m)}))
          /\ Persisted = CURRENT_CONFIG

\* Two merges with different bodies that both write high_risk_threshold,
\* the second begun while a call of predict was in progress.
C13_Witness ==
    /\ \E a, b \in Mergers :
          /\ Done(a) /\ Done(b)
          /\ frames[a].body # frames[b].body
          /\ frames[a].order < frames[b].order
          /\ CURRENT_CONFIG.high_risk_threshold = frames[b].body["high_risk_threshold"]
          /\ CURRENT_CONFIG.high_risk_threshold # frames[a].body["high_risk_threshold"]
    /\ CURRENT_CONFIG.velocity_threshold = 5
    /\ ~CURRENT_CONFIG.enabled_checks["geo_location"]
    /\ \E t \in PredictThreads : Done(t)

----------------------------------------------------------------------------
(* Outages: claims about the audit sink, the config store and the          *)
(* authorization of a merge (specification SpecOutage)                     *)

\* C21: when the write of a decision to the audit sink fails, predict still
\* returns the decision that the rules give for the call, which is the one
\* it returns with a working sink, and the caller sees no failure.
C21_SinkFailureKeepsDecision ==
    (Called /\ last.sink = "failed") =>
        /\ last.returned
        /\ Result = predict_rules(last.cfg, last.amount, last.X,
                                  last.risk_score, last.anomaly_score)
        /\ Len(transactions) < Len(hist[last.user_id])

\* A transaction at a midnight hour, flagged, whose row could not be
\* written.
C21_Witness ==
    /\ Called
    /\ last.sink = "failed"
    /\ last.action = "FLAG"
    /\ last.reasons = <<MidnightReason>>
    /\ transactions = <<>>

Restarted == config_reply' # config_reply /\ config_reply'.op = "restart"

\* C23: a start-up during which the config store cannot be read leaves a
\* running process with the default config; a start-up that finds the store
\* readable and without a config uses the default config as well.
C23_Step ==
    Restarted =>
        /\ running'
        /\ (~config_reply'.readable \/ redis_config = <<>>)
              => CURRENT_CONFIG' = DEFAULT_CONFIG

C23_StartsWithDefaultConfig == [][C23_Step]_vars

MergeAnswered == config_reply' # config_reply /\ config_reply'.op = "update_config"

\* The token of a header is what follows its leading "Bearer ".
ValidAuthorization(authorization) ==
    /\ startswith(authorization, "Bearer ")
    /\ Tail(authorization) = <<ADMIN_TOKEN>>

\* C24: a merge request whose Authorization header is missing, is not a
\* Bearer header or carries a token other than the admin token is answered
\* with an error, and the in-memory config, the persisted config and the
\* admin audit log are left as they were.
C24_Step ==
    (MergeAnswered /\ ~ValidAuthorization(config_reply'.authorization)) =>
        /\ config_reply'.status = "error"
        /\ UNCHANGED <<CURRENT_CONFIG, redis_config, admin_logs>>

C24_UnauthorizedMergeRejected == [][C24_Step]_vars

\* C30: a merge whose write to the config store fails leaves the in-memory
\* config as it was before the merge, so that config reads and decisions go
\* on with that config and the in-memory and the persisted config agree.
C30_Step ==
    (MergeAnswered /\ config_reply'.status = "error"
                   /\ config_reply'.status_code = 500) =>
        /\ CURRENT_CONFIG' = CURRENT_CONFIG
        /\ redis_config # <<>> => json_loads(redis_config'[1]) = CURRENT_CONFIG'

C30_FailedPersistLeavesConfig == [][C30_Step]_vars

====
